---- MODULE Spec2Model ----
(***************************************************************************)
(* Model of src/graph_generator/graphviz_script.py: a command line script  *)
(* that validates sys.argv and hands one path to graphviz.render.          *)
(*                                                                         *)
(* One run of the script is a walk of pc over its statements; a shell      *)
(* starts up to MaxRuns runs one after the other on the same filesystem,   *)
(* and keeps the record of the previous run so that two runs can be        *)
(* compared.  Python's sys.argv[i] is argv[i + 1] here.                    *)
(***************************************************************************)
EXTENDS Integers, Sequences, FiniteSets, TLC

MaxArgs == 2    \* positional arguments the shell passes, at most
MaxRuns == 2    \* runs the shell starts, at most

PROG == "graphviz_script.py"
ArgTokens == {"", "a", "b"}     \* what a positional argument can be
InitialFiles == {"a", "b"}      \* paths that may exist before the first run

ERR_NO_ARG_Swapped == "ERROR: path is empty"
ERR_NO_ARG == "ERROR: no path given as argument to script"
ERR_EMPTY == "ERROR: path is empty"
ERR_NOT_FOUND == "ERROR: path does not exist"

EXIT_OK == 0
EXIT_UNCAUGHT == 1

VARIABLES
    run,        \* number of runs started so far
    pc,         \* "shell" | "l5" | "l7" | "l10" | "l11" | "l14" | "l15" | "eof" | "exited"
    argv,       \* sys.argv of the current run
    fs,         \* paths that exist on the filesystem
    fs0,        \* fs when the current run started
    dot_file,   \* the module-level variable dot_file
    stdout,     \* lines the run has printed
    calls,      \* calls of render the run has made
    raised,     \* TRUE once render has raised in this run
    exit,       \* <<>> while running, <<code>> once the process has exited
    steps,      \* line numbers of the statements the run has executed
    reads,      \* Python indices i for which the run evaluated sys.argv[i]
    prev        \* record of the previous run (argv = <<>> when there is none)

vars == <<run, pc, argv, fs, fs0, dot_file, stdout, calls, raised, exit,
          steps, reads, prev>>

RECURSIVE ArgLists(_)
ArgLists(n) ==
    IF n = 0 THEN {<<>>}
    ELSE ArgLists(n - 1) \cup
         {Append(s, a) : s \in {t \in ArgLists(n - 1) : Len(t) = n - 1}, a \in ArgTokens}

Range(s) == {s[i] : i \in 1..Len(s)}

\* sys.argv[i]
SysArgv(i) == argv[i + 1]

\* str()
Str0 == ""

\* len(sys.argv) == 1
NoArgument == Len(argv) = 1

\* sys.argv[1], the right-hand side of line 10
CandidatePathLast == SysArgv(Len(argv) - 1)
CandidatePath == SysArgv(1)

\* dot_file == str()
IsEmptyNever(s) == FALSE
IsEmpty(s) == s = Str0

\* path.exists(p): "" never names an existing entry
PathExistsAlways(p) == TRUE
PathExistsFresh(p) == p \in fs /\ (p \o ".png") \notin fs
PathExists(p) == p \in fs

\* the argument tuple of render('dot', 'png', sys.argv[1])
RenderArgsArgv0 == [engine |-> "dot", format |-> "png", filepath |-> SysArgv(0)]
RenderArgs == [engine |-> "dot", format |-> "png", filepath |-> SysArgv(1)]

\* the file render writes for a call
RenderedPath(c) == c.filepath \o "." \o c.format

NoRun == [argv |-> <<>>, fs0 |-> {}, stdout |-> <<>>, calls |-> <<>>,
          raised |-> FALSE, exit |-> <<>>]
ThisRun == [argv |-> argv, fs0 |-> fs0, stdout |-> stdout, calls |-> calls,
            raised |-> raised, exit |-> exit]

Init ==
    /\ run = 0
    /\ pc = "shell"
    /\ argv = <<PROG>>
    /\ fs \in SUBSET InitialFiles
    /\ fs0 = fs
    /\ dot_file = Str0
    /\ stdout = <<>>
    /\ calls = <<>>
    /\ raised = FALSE
    /\ exit = <<>>
    /\ steps = <<>>
    /\ reads = {}
    /\ prev = NoRun

\* the shell starts the script with the positional arguments args
Invoke(args) ==
    /\ pc \in {"shell", "exited"}
    /\ run < MaxRuns
    /\ run' = run + 1
    /\ prev' = IF pc = "exited" THEN ThisRun ELSE prev
    /\ argv' = <<PROG>> \o args
    /\ fs0' = fs
    /\ dot_file' = Str0
    /\ stdout' = <<>>
    /\ calls' = <<>>
    /\ raised' = FALSE
    /\ exit' = <<>>
    /\ steps' = <<>>
    /\ reads' = {}
    /\ pc' = "l5"
    /\ UNCHANGED fs

\* line 5: dot_file = str()
Line5 ==
    /\ pc = "l5"
    /\ dot_file' = Str0
    /\ steps' = Append(steps, 5)
    /\ pc' = "l7"
    /\ UNCHANGED <<run, argv, fs, fs0, stdout, calls, raised, exit, reads, prev>>

\* lines 7-8: no positional argument
Line7True ==
    /\ pc = "l7"
    /\ NoArgument
    /\ stdout' = Append(stdout, ERR_NO_ARG)
    /\ steps' = steps \o <<7, 8>>
    /\ pc' = "eof"
    /\ UNCHANGED <<run, argv, fs, fs0, dot_file, calls, raised, exit, reads, prev>>

\* lines 7, 9: there is a positional argument
Line7False ==
    /\ pc = "l7"
    /\ ~NoArgument
    /\ steps' = Append(steps, 7)
    /\ pc' = "l10"
    /\ UNCHANGED <<run, argv, fs, fs0, dot_file, stdout, calls, raised, exit, reads, prev>>

\* line 10: dot_file = sys.argv[1]
Line10 ==
    /\ pc = "l10"
    /\ dot_file' = CandidatePath
    /\ reads' = reads \cup {1}
    /\ steps' = Append(steps, 10)
    /\ pc' = "l11"
    /\ UNCHANGED <<run, argv, fs, fs0, stdout, calls, raised, exit, prev>>

\* lines 11-12: the path is the empty string
Line11TrueNoElse ==
    /\ pc = "l11"
    /\ IsEmpty(dot_file)
    /\ stdout' = Append(stdout, ERR_EMPTY)
    /\ steps' = steps \o <<11, 12>>
    /\ pc' = "l14"
    /\ UNCHANGED <<run, argv, fs, fs0, dot_file, calls, raised, exit, reads, prev>>
Line11True ==
    /\ pc = "l11"
    /\ IsEmpty(dot_file)
    /\ stdout' = Append(stdout, ERR_EMPTY)
    /\ steps' = steps \o <<11, 12>>
    /\ pc' = "eof"
    /\ UNCHANGED <<run, argv, fs, fs0, dot_file, calls, raised, exit, reads, prev>>

\* lines 11, 13: the path is not empty
Line11False ==
    /\ pc = "l11"
    /\ ~IsEmpty(dot_file)
    /\ steps' = Append(steps, 11)
    /\ pc' = "l14"
    /\ UNCHANGED <<run, argv, fs, fs0, dot_file, stdout, calls, raised, exit, reads, prev>>

\* line 14: the path exists
Line14True ==
    /\ pc = "l14"
    /\ PathExists(dot_file)
    /\ steps' = Append(steps, 14)
    /\ pc' = "l15"
    /\ UNCHANGED <<run, argv, fs, fs0, dot_file, stdout, calls, raised, exit, reads, prev>>

\* lines 14, 16-17: the path does not exist
Line14FalseNoElse ==
    /\ pc = "l14"
    /\ ~PathExists(dot_file)
    /\ stdout' = Append(stdout, ERR_NOT_FOUND)
    /\ steps' = steps \o <<14, 17>>
    /\ pc' = "l15"
    /\ UNCHANGED <<run, argv, fs, fs0, dot_file, calls, raised, exit, reads, prev>>
Line14False ==
    /\ pc = "l14"
    /\ ~PathExists(dot_file)
    /\ stdout' = Append(stdout, ERR_NOT_FOUND)
    /\ steps' = steps \o <<14, 17>>
    /\ pc' = "eof"
    /\ UNCHANGED <<run, argv, fs, fs0, dot_file, calls, raised, exit, reads, prev>>

\* line 15: render returns, having written its output file
Line15Returns ==
    /\ pc = "l15"
    /\ calls' = Append(calls, RenderArgs)
    /\ reads' = reads \cup {1}
    /\ fs' = fs \cup {RenderedPath(RenderArgs)}
    /\ steps' = Append(steps, 15)
    /\ pc' = "eof"
    /\ UNCHANGED <<run, argv, fs0, dot_file, stdout, raised, exit, prev>>

\* line 15: render raises; nothing catches it, the interpreter exits
Line15RaisesCaught ==
    /\ pc = "l15"
    /\ calls' = Append(calls, RenderArgs)
    /\ reads' = reads \cup {1}
    /\ raised' = TRUE
    /\ steps' = Append(steps, 15)
    /\ pc' = "eof"
    /\ UNCHANGED <<run, argv, fs, fs0, dot_file, stdout, exit, prev>>
Line15Raises ==
    /\ pc = "l15"
    /\ calls' = Append(calls, RenderArgs)
    /\ reads' = reads \cup {1}
    /\ raised' = TRUE
    /\ steps' = Append(steps, 15)
    /\ exit' = <<EXIT_UNCAUGHT>>
    /\ pc' = "exited"
    /\ UNCHANGED <<run, argv, fs, fs0, dot_file, stdout, prev>>

\* the script runs off its end: there is no sys.exit anywhere
EndOfScriptFailing ==
    /\ pc = "eof"
    /\ exit' = <<IF stdout = <<>> THEN EXIT_OK ELSE EXIT_UNCAUGHT>>
    /\ pc' = "exited"
    /\ UNCHANGED <<run, argv, fs, fs0, dot_file, stdout, calls, raised, steps, reads, prev>>
EndOfScript ==
    /\ pc = "eof"
    /\ exit' = <<EXIT_OK>>
    /\ pc' = "exited"
    /\ UNCHANGED <<run, argv, fs, fs0, dot_file, stdout, calls, raised, steps, reads, prev>>

Next ==
    \/ \E args \in ArgLists(MaxArgs) : Invoke(args)
    \/ Line5
    \/ Line7True
    \/ Line7False
    \/ Line10
    \/ Line11True
    \/ Line11False
    \/ Line14True
    \/ Line14False
    \/ Line15Returns
    \/ Line15Raises
    \/ EndOfScript

Spec == Init /\ [][Next]_vars

----
Done == pc = "exited"
Started == run > 0
NPos == Len(argv) - 1

TypeOK ==
    /\ run \in 0..MaxRuns
    /\ pc \in {"shell", "l5", "l7", "l10", "l11", "l14", "l15", "eof", "exited"}
    /\ Len(argv) \in 1..(MaxArgs + 1)
    /\ argv[1] = PROG
    /\ "" \notin fs
    /\ fs0 \subseteq fs
    /\ Len(exit) = IF Done THEN 1 ELSE 0


\* the three validation checks, read off the inputs of the run
FirstArgEmpty == NPos >= 1 /\ SysArgv(1) = ""
FirstArgMissing == NPos >= 1 /\ SysArgv(1) /= "" /\ SysArgv(1) \notin fs0
FirstArgExists == NPos >= 1 /\ SysArgv(1) /= "" /\ SysArgv(1) \in fs0
ValidationFails == NPos = 0 \/ FirstArgEmpty \/ FirstArgMissing

StrictlyIncreasing(s) == \A i \in 1..(Len(s) - 1) : s[i] < s[i + 1]

----
\* C1 as stated: a run with no positional argument prints exactly
\* "no path given as argument to script" and never calls render.
C1_AsStated ==
    (Started /\ NPos = 0) =>
        /\ calls = <<>>
        /\ Done => stdout = <<"no path given as argument to script">>

\* C1, amended: a run with no positional argument prints exactly the line
\* "ERROR: no path given as argument to script" and never calls render.
C1_NoArgument ==
    (Started /\ NPos = 0) =>
        /\ calls = <<>>
        /\ Done => stdout = <<"ERROR: no path given as argument to script">>

C1_Witness == Done /\ NPos = 0 /\ 8 \in Range(steps)

\* C2 as stated: a run whose first argument is a non-empty path that does not
\* exist prints exactly "path does not exist" and never calls render.
C2_AsStated ==
    (Started /\ FirstArgMissing) =>
        /\ calls = <<>>
        /\ Done => stdout = <<"path does not exist">>

\* C2, amended: a run whose first argument is a non-empty path that does not
\* exist prints exactly the line "ERROR: path does not exist" and never calls
\* render.
C2_PathNotFound ==
    (Started /\ FirstArgMissing) =>
        /\ calls = <<>>
        /\ Done => stdout = <<"ERROR: path does not exist">>

C2_Witness == Done /\ FirstArgMissing /\ 17 \in Range(steps)

\* C3: a run whose first argument is a non-empty existing path calls render
\* exactly once, with 'dot', 'png' and the first argument unchanged, and
\* prints nothing itself.
C3_Delegates ==
    (Started /\ FirstArgExists) =>
        /\ stdout = <<>>
        /\ Len(calls) <= 1
        /\ Done => calls = <<[engine |-> "dot", format |-> "png", filepath |-> argv[2]]>>

C3_Witness == Done /\ FirstArgExists /\ 15 \in Range(steps) /\ ~raised

\* C4: when render raises, the run ends by the uncaught exception with a
\* non-zero exit status, never by a normal exit, and has printed nothing.
C4_FailurePropagates ==
    raised =>
        /\ Done
        /\ exit = <<EXIT_UNCAUGHT>>
        /\ exit /= <<EXIT_OK>>
        /\ stdout = <<>>

C4_Witness == raised /\ Done /\ Len(calls) = 1

\* C5: a run with two or more positional arguments has the outcome (lines
\* printed, render calls and their parameters) of the run given only the first
\* of them on a filesystem where that path exists likewise; no sys.argv[i]
\* with i >= 2 is ever evaluated.
SameFirstArg(long, short) ==
    /\ Len(long) >= 3
    /\ short = SubSeq(long, 1, 2)
C5_ExtraArgsIgnored ==
    /\ reads \subseteq {1}
    /\ (Done /\ (SameFirstArg(prev.argv, argv) \/ SameFirstArg(argv, prev.argv))
             /\ (argv[2] \in fs0 <=> argv[2] \in prev.fs0)) =>
          /\ stdout = prev.stdout
          /\ calls = prev.calls

C5_Witness ==
    /\ Done
    /\ SameFirstArg(prev.argv, argv)
    /\ prev.argv[3] /= argv[2]
    /\ Len(calls) = 1
    /\ 1 \in reads

\* C6 as stated: a run whose first argument is the empty string prints the
\* message "path is empty", makes neither the existence check nor a render
\* call, and terminates.
C6_AsStated ==
    (Started /\ FirstArgEmpty) =>
        /\ 14 \notin Range(steps)
        /\ calls = <<>>
        /\ Done => (stdout = <<"path is empty">> /\ 12 \in Range(steps))
        /\ pc \notin {"l14", "l15"}

\* C6, amended: a run whose first argument is the empty string prints the
\* line "ERROR: path is empty", makes neither the existence check nor a render
\* call, and terminates normally.
C6_EmptyPath ==
    (Started /\ FirstArgEmpty) =>
        /\ 14 \notin Range(steps)
        /\ calls = <<>>
        /\ Done => (stdout = <<"ERROR: path is empty">> /\ 12 \in Range(steps))
        /\ pc \notin {"l14", "l15"}

C6_Witness == Done /\ FirstArgEmpty /\ Len(stdout) = 1 /\ 12 \in Range(steps)

\* C7: a run prints one line when a validation check fails and none
\* otherwise, calls render at most once, never both prints and calls render,
\* and executes no statement twice.
C7_AtMostOnce ==
    Started =>
        /\ Len(stdout) <= 1
        /\ Len(calls) <= 1
        /\ ~(stdout /= <<>> /\ calls /= <<>>)
        /\ StrictlyIncreasing(steps)
        /\ Done => (Len(stdout) = (IF ValidationFails THEN 1 ELSE 0))
        /\ Done => (Len(calls) = (IF ValidationFails THEN 0 ELSE 1))

C7_Witness == Done /\ ValidationFails /\ Len(stdout) = 1 /\ prev.calls /= <<>>

\* C8: after a validation failure the process exits with status 0, the status
\* of a successful render; the status is non-zero exactly when render raised.
C8_ExitStatus ==
    Done =>
        /\ ValidationFails => exit = <<0>>
        /\ (~ValidationFails /\ ~raised) => exit = <<0>>
        /\ exit /= <<0>> <=> raised

C8_Witness ==
    /\ Done /\ ValidationFails /\ exit = <<0>>
    /\ prev.calls /= <<>> /\ ~prev.raised /\ prev.exit = exit

\* C9: two runs in succession on the same existing path, render returning
\* both times, have the same outcome: the second prints nothing and makes the
\* one render call of the first, whatever the first left on the filesystem.
C9_SecondRunSame ==
    (Done /\ prev.argv = argv /\ FirstArgExists /\ argv[2] \in prev.fs0
          /\ ~prev.raised /\ ~raised) =>
        /\ stdout = <<>>
        /\ stdout = prev.stdout
        /\ Len(calls) = 1
        /\ calls = prev.calls
        /\ exit = prev.exit

C9_Witness ==
    /\ Done /\ prev.argv = argv /\ FirstArgExists /\ ~prev.raised /\ ~raised
    /\ (argv[2] \o ".png") \in fs0
    /\ (argv[2] \o ".png") \notin prev.fs0

\* C10 as stated: no run reaches the branch that prints "path is empty".
C10_AsStated == 12 \notin Range(steps)

\* C10, amended: a run reaches the branch that prints "path is empty" exactly
\* when its first positional argument is the empty string.
C10_EmptyBranchReach ==
    /\ 12 \in Range(steps) => FirstArgEmpty
    /\ (Done /\ FirstArgEmpty) => 12 \in Range(steps)

C10_Witness == 12 \in Range(steps) /\ NPos = 2 /\ pc = "eof"

====
